---- MODULE Spec2Model ----
(***************************************************************************)
(* Model of cmd/test-proxy/diff.go: DiffMetrics compares an expected and   *)
(* an actual collection of metrics.  Each expected metric yields a keyer   *)
(* (a predicate plus a key generator); both collections are turned into a  *)
(* key -> metric map with the keyers of the expected side, and the keys    *)
(* found on one side only give Diff.Missing and Diff.Extra.                *)
(*                                                                         *)
(* Go strings are TLA+ strings and keys are built by concatenation, as     *)
(* strings.Join and fmt.Sprintf build them.  A *Metric is the position of  *)
(* the metric in its input slice.  A keyer closure is a record holding the *)
(* values the closure captured; Apply runs the closure's body.  The order  *)
(* of a range over a Go map is unspecified and every key of a map gives    *)
(* one entry, so Diff.Missing and Diff.Extra are the sets of their         *)
(* entries: every order disjunct may append them in.                       *)
(***************************************************************************)
EXTENDS Integers, Sequences, FiniteSets, TLC

VARIABLES expected, actual, pc, keyers, expectedKeyMap, actualKeyMap, diff

vars == <<expected, actual, pc, keyers, expectedKeyMap, actualKeyMap, diff>>

(***************************************************************************)
(* Bounds of the model and the strings the inputs are drawn from.          *)
(***************************************************************************)
\* The two collections of Spec hold at most MaxMetrics metrics together.
MaxMetrics == 3
\* The collection SpecSelf compares with itself holds at most MaxSelf metrics.
MaxSelf == 2

Names == {"a", "b"}
Values == {"", "1"}
Timestamps == {"", "1"}
TagNames == {"t", "u"}
TagValues == {"", "p", "q"}

\* The tag names of the model in ascending lexical order.
TagOrder == <<"t", "u">>

\* Every tag map over TagNames: a tag is absent, present with the empty
\* value, or present with a value.
TagMaps == UNION {[S -> TagValues] : S \in SUBSET TagNames}

\* The tag maps with at most the tag t: absent, empty or "p".
SmallTagMaps == {tags \in TagMaps : DOMAIN tags \subseteq {"t"} /\ \A n \in DOMAIN tags : tags[n] # "q"}

NoTags == <<>>

\* The metrics of SpecSelf.
SelfMetrics == [Name : Names, Value : Values, Timestamp : Timestamps, Tags : SmallTagMaps]

\* The metrics of Spec: those of SelfMetrics, the ones named "b" without
\* timestamp and without tags.
Metrics == {m \in SelfMetrics : m.Name = "b" => m.Timestamp = "" /\ m.Tags = NoTags}

\* The metrics of SpecPair: two tags and two distinct non-empty values.
WideMetrics == [Name : Names, Value : Values \cup {"2"}, Timestamp : Timestamps, Tags : TagMaps]

(***************************************************************************)
(* Helpers for Go's strings and maps.                                      *)
(***************************************************************************)
\* strings.Join(keys, sep)
RECURSIVE Join(_, _)
Join(keys, sep) ==
    IF Len(keys) = 0 THEN ""
    ELSE IF Len(keys) = 1 THEN keys[1]
    ELSE keys[1] \o sep \o Join(Tail(keys), sep)

\* fmt's %#v of a string: the Go-syntax quoted string.  No string of the
\* model holds a character that Go escapes.
GoQuote(s) == "\"" \o s \o "\""

\* metric.Tags[name]: the zero value "" when the tag is absent.
TagGet(tags, name) == IF name \in DOMAIN tags THEN tags[name] ELSE ""

\* The names of a tag map after sort.Strings.
SortedTagNames(tags) == SelectSeq(TagOrder, LAMBDA n : n \in DOMAIN tags)

\* keyers[name] on a Go map: the nil slice when the name is absent.
KeyersFor(ks, name) == IF name \in DOMAIN ks THEN ks[name] ELSE <<>>

(***************************************************************************)
(* The keyers.  Each constructor returns the closure; each ...Func is the  *)
(* body of the closure: <<matched, key>>.                                  *)
(***************************************************************************)
nameKey(exp) == [kind |-> "name", expected |-> exp]
nameKeyFunc(k, metric) == <<metric.Name = k.expected, metric.Name>>

valueKey(exp) == [kind |-> "value", expected |-> exp]
valueKeyFunc(k, metric) == <<metric.Value = k.expected, metric.Value>>

timestampKey(exp) == [kind |-> "timestamp", expected |-> exp]
timestampKeyFunc(k, metric) == <<metric.Timestamp = k.expected, metric.Timestamp>>

tagNameKey(name) == [kind |-> "tagName", name |-> name]
\* The closure of tagNameKey, its key made of the metric's tag value.
tagNameKeyFuncValue(k, metric) ==
    <<k.name \in DOMAIN metric.Tags, k.name \o "=" \o GoQuote(TagGet(metric.Tags, k.name))>>
tagNameKeyFunc(k, metric) == <<k.name \in DOMAIN metric.Tags, k.name \o "=*">>

fullTagKey(name, value) == [kind |-> "fullTag", name |-> name, value |-> value]
fullTagKeyFunc(k, metric) ==
    <<TagGet(metric.Tags, k.name) = k.value, k.name \o "=" \o GoQuote(TagGet(metric.Tags, k.name))>>

compositeKey(ks) == [kind |-> "composite", keyers |-> ks]

RECURSIVE Apply(_, _)
RECURSIVE compositeKeyLoop(_, _, _, _)

\* The loop of the composite closure: the first sub-keyer that does not
\* match ends it with (false, ""); otherwise the keys are joined by " ".
compositeKeyLoop(ks, metric, i, keys) ==
    IF i > Len(ks) THEN <<TRUE, Join(keys, " ")>>
    ELSE LET r == Apply(ks[i], metric)
         IN IF ~r[1] THEN <<FALSE, "">>
            ELSE compositeKeyLoop(ks, metric, i + 1, Append(keys, r[2]))

compositeKeyFunc(k, metric) == compositeKeyLoop(k.keyers, metric, 1, <<>>)

\* keyer(metric): the call of a closure.
Apply(k, metric) ==
    CASE k.kind = "name" -> nameKeyFunc(k, metric)
      [] k.kind = "value" -> valueKeyFunc(k, metric)
      [] k.kind = "timestamp" -> timestampKeyFunc(k, metric)
      [] k.kind = "tagName" -> tagNameKeyFunc(k, metric)
      [] k.kind = "fullTag" -> fullTagKeyFunc(k, metric)
      [] k.kind = "composite" -> compositeKeyFunc(k, metric)

tagsKey(tags) ==
    LET tagNames == SortedTagNames(tags)
    IN compositeKey([i \in 1..Len(tagNames) |->
           IF tags[tagNames[i]] = "" THEN tagNameKey(tagNames[i])
           ELSE fullTagKey(tagNames[i], tags[tagNames[i]])])

\* metricKeyer without its value keyer.
metricKeyerNoValue(m) ==
    LET k1 == <<nameKey(m.Name)>>
        k2 == IF m.Timestamp # "" THEN Append(k1, timestampKey(m.Timestamp)) ELSE k1
    IN compositeKey(Append(k2, tagsKey(m.Tags)))

metricKeyer(m) ==
    LET k1 == <<nameKey(m.Name)>>
        k2 == IF m.Value # "" THEN Append(k1, valueKey(m.Value)) ELSE k1
        k3 == IF m.Timestamp # "" THEN Append(k2, timestampKey(m.Timestamp)) ELSE k2
    IN compositeKey(Append(k3, tagsKey(m.Tags)))

\* The loop of metricKeyers: the keyer of each expected metric is appended
\* to the list registered under the metric's name.
RECURSIVE metricKeyersLoop(_, _, _)
metricKeyersLoop(exp, i, keyersByMetric) ==
    IF i > Len(exp) THEN keyersByMetric
    ELSE LET m == exp[i]
         IN metricKeyersLoop(exp, i + 1,
                (m.Name :> Append(KeyersFor(keyersByMetric, m.Name), metricKeyer(m)))
                    @@ keyersByMetric)

\* The same loop, overwriting the list instead of appending to it.
RECURSIVE metricKeyersLoopOverwrite(_, _, _)
metricKeyersLoopOverwrite(exp, i, keyersByMetric) ==
    IF i > Len(exp) THEN keyersByMetric
    ELSE LET m == exp[i]
         IN metricKeyersLoopOverwrite(exp, i + 1,
                (m.Name :> <<metricKeyer(m)>>) @@ keyersByMetric)

metricKeyersOverwrite(exp) == metricKeyersLoopOverwrite(exp, 1, <<>>)

metricKeyers(exp) == metricKeyersLoop(exp, 1, <<>>)

\* The inner loop of metricKeyMap: <<found, key>> of the first keyer that matches.
RECURSIVE firstKeyer(_, _, _)
firstKeyer(foundKeyers, metric, j) ==
    IF j > Len(foundKeyers) THEN <<FALSE, "">>
    ELSE LET r == Apply(foundKeyers[j], metric)
         IN IF r[1] THEN <<TRUE, r[2]>> ELSE firstKeyer(foundKeyers, metric, j + 1)

\* The inner loop without its break: the last keyer that matches.
RECURSIVE lastKeyer(_, _, _)
lastKeyer(foundKeyers, metric, j) ==
    IF j < 1 THEN <<FALSE, "">>
    ELSE LET r == Apply(foundKeyers[j], metric)
         IN IF r[1] THEN <<TRUE, r[2]>> ELSE lastKeyer(foundKeyers, metric, j - 1)

\* keyOf with the inner loop that does not break.
keyOfLastMatch(metric, ks) ==
    LET f == lastKeyer(KeyersFor(ks, metric.Name), metric, Len(KeyersFor(ks, metric.Name)))
    IN IF f[1] THEN f[2] ELSE Apply(metricKeyer(metric), metric)[2]

\* The key metricKeyMap records a metric under: the key of the first
\* matching keyer, or else of the metric's own keyer.
keyOf(metric, ks) ==
    LET f == firstKeyer(KeyersFor(ks, metric.Name), metric, 1)
    IN IF f[1] THEN f[2] ELSE Apply(metricKeyer(metric), metric)[2]

\* The write that keeps an entry already there.
putFirstWins(keyMap, key, i) == IF key \in DOMAIN keyMap THEN keyMap ELSE (key :> i) @@ keyMap

\* keyMap[key] = metric
put(keyMap, key, i) == (key :> i) @@ keyMap

RECURSIVE metricKeyMapLoop(_, _, _, _)
metricKeyMapLoop(metrics, ks, i, keyMap) ==
    IF i > Len(metrics) THEN keyMap
    ELSE metricKeyMapLoop(metrics, ks, i + 1, put(keyMap, keyOf(metrics[i], ks), i))

metricKeyMap(metrics, ks) == metricKeyMapLoop(metrics, ks, 1, <<>>)

\* The keys disjunct's first loop keeps: in a and not in b.
disjunctOnlyInA(a, b) == {x \in DOMAIN a : x \notin DOMAIN b}

\* The second loop with its test inverted.
disjunctOnlyInBInverted(a, b) == {y \in DOMAIN b : y \in DOMAIN a}

\* The keys disjunct's second loop keeps: in b and not in a.
disjunctOnlyInB(a, b) == {y \in DOMAIN b : y \notin DOMAIN a}

(***************************************************************************)
(* DiffMetrics, one action per call it makes.                              *)
(***************************************************************************)
NoMap == <<>>
NoDiff == [Missing |-> {}, Extra |-> {}]

Start(exp, act) ==
    /\ expected = exp
    /\ actual = act
    /\ pc = "metricKeyers"
    /\ keyers = NoMap
    /\ expectedKeyMap = NoMap
    /\ actualKeyMap = NoMap
    /\ diff = NoDiff

\* Any two collections of at most MaxMetrics metrics together.
Init ==
    \E k \in 0..MaxMetrics, l \in 0..MaxMetrics :
        /\ k + l <= MaxMetrics
        /\ \E exp \in [1..k -> Metrics], act \in [1..l -> Metrics] : Start(exp, act)

\* One expected and one actual metric.
InitPair == \E e \in WideMetrics, a \in WideMetrics : Start(<<e>>, <<a>>)

\* A collection and a deep-equal copy of it.
InitSelf == \E k \in 0..MaxSelf : \E m \in [1..k -> SelfMetrics] : Start(m, m)

MetricKeyers ==
    /\ pc = "metricKeyers"
    /\ keyers' = metricKeyers(expected)
    /\ pc' = "expectedKeyMap"
    /\ UNCHANGED <<expected, actual, expectedKeyMap, actualKeyMap, diff>>

ExpectedKeyMap ==
    /\ pc = "expectedKeyMap"
    /\ expectedKeyMap' = metricKeyMap(expected, keyers)
    /\ pc' = "actualKeyMap"
    /\ UNCHANGED <<expected, actual, keyers, actualKeyMap, diff>>

ActualKeyMap ==
    /\ pc = "actualKeyMap"
    /\ actualKeyMap' = metricKeyMap(actual, keyers)
    /\ pc' = "disjunct"
    /\ UNCHANGED <<expected, actual, keyers, expectedKeyMap, diff>>

Disjunct ==
    /\ pc = "disjunct"
    /\ diff' = [Missing |-> {expectedKeyMap[x] : x \in disjunctOnlyInA(expectedKeyMap, actualKeyMap)},
                Extra |-> {actualKeyMap[y] : y \in disjunctOnlyInB(expectedKeyMap, actualKeyMap)}]
    /\ pc' = "done"
    /\ UNCHANGED <<expected, actual, keyers, expectedKeyMap, actualKeyMap>>

Next == MetricKeyers \/ ExpectedKeyMap \/ ActualKeyMap \/ Disjunct

Spec == Init /\ [][Next]_vars
SpecPair == InitPair /\ [][Next]_vars
SpecSelf == InitSelf /\ [][Next]_vars

(***************************************************************************)
(* DiffMetrics as an operator, for the claims that compare two calls.      *)
(***************************************************************************)
\* The metrics of Diff.Missing of DiffMetrics(exp, act), as a set.
DiffMissing(exp, act) ==
    LET ks == metricKeyers(exp)
        em == metricKeyMap(exp, ks)
        am == metricKeyMap(act, ks)
    IN {exp[em[k]] : k \in disjunctOnlyInA(em, am)}

\* The metrics of Diff.Extra of DiffMetrics(exp, act), as a set.
DiffExtra(exp, act) ==
    LET ks == metricKeyers(exp)
        em == metricKeyMap(exp, ks)
        am == metricKeyMap(act, ks)
    IN {act[am[k]] : k \in disjunctOnlyInB(em, am)}

(***************************************************************************)
(* What the claims speak of.                                               *)
(***************************************************************************)
Done == pc = "done"

Range(f) == {f[i] : i \in DOMAIN f}

\* a agrees with e on every constrained field of e.
Satisfies(e, a) ==
    /\ a.Name = e.Name
    /\ e.Value # "" => a.Value = e.Value
    /\ e.Timestamp # "" => a.Timestamp = e.Timestamp
    /\ \A t \in DOMAIN e.Tags :
        /\ t \in DOMAIN a.Tags
        /\ e.Tags[t] # "" => a.Tags[t] = e.Tags[t]

\* The expected metrics, by position, whose constraints m satisfies.
SatisfiedBy(m) == {j \in DOMAIN expected : Satisfies(expected[j], m)}

Min(S) == CHOOSE x \in S : \A y \in S : x <= y
Max(S) == CHOOSE x \in S : \A y \in S : x >= y

\* The key of m under the keyer of the earliest expected metric it
\* satisfies, or under its own keyer when it satisfies none.
EarliestKey(m) ==
    IF SatisfiedBy(m) # {} THEN Apply(metricKeyer(expected[Min(SatisfiedBy(m))]), m)[2]
    ELSE Apply(metricKeyer(m), m)[2]

\* The key of each metric of a collection, in input order.
RECURSIVE KeysOf(_, _)
KeysOf(metrics, ks) ==
    IF Len(metrics) = 0 THEN <<>>
    ELSE <<keyOf(Head(metrics), ks)>> \o KeysOf(Tail(metrics), ks)

\* EarliestKey of each metric of a collection, in input order.
RECURSIVE EarliestKeysOf(_)
EarliestKeysOf(metrics) ==
    IF Len(metrics) = 0 THEN <<>>
    ELSE <<EarliestKey(Head(metrics))>> \o EarliestKeysOf(Tail(metrics))

\* The metric's own key.
SelfKey(m) == Apply(metricKeyer(m), m)[2]

MissingMetrics == {expected[i] : i \in diff.Missing}
ExtraMetrics == {actual[i] : i \in diff.Extra}
MatchedKeys == DOMAIN expectedKeyMap \cap DOMAIN actualKeyMap

Perms(n) == {p \in [1..n -> 1..n] : \A i, j \in 1..n : i # j => p[i] # p[j]}
Permute(s, p) == [i \in DOMAIN s |-> s[p[i]]]

\* At most one keyer registered under the metric's name matches it.
Unambiguous(m) ==
    Cardinality({j \in DOMAIN KeyersFor(keyers, m.Name) : Apply(KeyersFor(keyers, m.Name)[j], m)[1]}) <= 1

(***************************************************************************)
(* The claims.                                                             *)
(***************************************************************************)
\* C1: an expected and an actual metric recorded under the same key agree
\* on every constrained field of the expected metric.
C1_MatchedPairAgrees ==
    Done => \A k \in MatchedKeys : Satisfies(expected[expectedKeyMap[k]], actual[actualKeyMap[k]])

\* C2: every actual metric whose Name is the Name of no expected metric
\* appears in Diff.Extra.
C2_ForeignNameInExtra ==
    Done => \A i \in DOMAIN actual :
                (\A j \in DOMAIN expected : expected[j].Name # actual[i].Name)
                    => actual[i] \in ExtraMetrics

\* C3: when every metric is matched by at most one keyer of its Name,
\* permuting the expected or the actual collection changes neither
\* Missing nor Extra, as unordered collections.
C3_OrderIndependent ==
    (Done /\ \A m \in Range(expected) \cup Range(actual) : Unambiguous(m))
        => \A p \in Perms(Len(expected)), q \in Perms(Len(actual)) :
               /\ DiffMissing(Permute(expected, p), Permute(actual, q)) = MissingMetrics
               /\ DiffExtra(Permute(expected, p), Permute(actual, q)) = ExtraMetrics

\* C4: a collection compared with itself has no Missing and no Extra.
C4_SelfDiffEmpty ==
    (Done /\ actual = expected) => diff.Missing = {} /\ diff.Extra = {}

C4_Witness ==
    /\ Done /\ actual = expected /\ Len(expected) = 2
    /\ expected[1].Name = expected[2].Name
    /\ expected[1] # expected[2]
    /\ expected[1].Value = "" /\ expected[2].Value # ""
    /\ "t" \in DOMAIN expected[1].Tags /\ expected[1].Tags["t"] = ""
    /\ diff = NoDiff

\* C5: one expected metric and one actual metric that satisfies every
\* constraint of it give no Missing and no Extra.
C5_PartialMatch ==
    (Done /\ Len(expected) = 1 /\ Len(actual) = 1 /\ Satisfies(expected[1], actual[1]))
        => diff.Missing = {} /\ diff.Extra = {}

C5_Witness ==
    /\ Done /\ Len(expected) = 1 /\ Len(actual) = 1
    /\ Satisfies(expected[1], actual[1])
    /\ expected[1].Value = "" /\ actual[1].Value = "2"
    /\ expected[1].Timestamp = "" /\ actual[1].Timestamp = "1"
    /\ DOMAIN expected[1].Tags = {"t"} /\ expected[1].Tags["t"] = ""
    /\ DOMAIN actual[1].Tags = {"t", "u"} /\ actual[1].Tags["t"] = "p"
    /\ diff = NoDiff

\* a is e but for the value of one constrained field of e.
DiffersInOneConstrainedField(e, a) ==
    \/ /\ e.Value # "" /\ a.Value # e.Value
       /\ a = [e EXCEPT !.Value = a.Value]
    \/ \E t \in DOMAIN e.Tags :
        /\ e.Tags[t] # "" /\ t \in DOMAIN a.Tags /\ a.Tags[t] # e.Tags[t]
        /\ a = [e EXCEPT !.Tags[t] = a.Tags[t]]

\* C6: one expected metric and one actual metric that differs from it in
\* one constrained field give Missing = [e] and Extra = [a].
C6_ExactMatchRequired ==
    (Done /\ Len(expected) = 1 /\ Len(actual) = 1
          /\ DiffersInOneConstrainedField(expected[1], actual[1]))
        => diff.Missing = {1} /\ diff.Extra = {1}

C6_Witness ==
    /\ Done /\ Len(expected) = 1 /\ Len(actual) = 1
    /\ expected[1].Value = "1" /\ actual[1].Value = "2"
    /\ actual[1] = [expected[1] EXCEPT !.Value = "2"]
    /\ DOMAIN expected[1].Tags = {"t", "u"}
    /\ diff.Missing = {1} /\ diff.Extra = {1}

\* C7: the keys of the metrics of Missing, the keys of the metrics of
\* Extra and the matched keys are pairwise disjoint.
C7_KeySetsDisjoint ==
    Done =>
        LET ek == KeysOf(expected, keyers)
            ak == KeysOf(actual, keyers)
            missingKeys == {ek[i] : i \in diff.Missing}
            extraKeys == {ak[i] : i \in diff.Extra}
            matchedKeys == MatchedKeys
        IN /\ missingKeys \cap extraKeys = {}
           /\ missingKeys \cap matchedKeys = {}
           /\ extraKeys \cap matchedKeys = {}

C7_Witness ==
    /\ Done
    /\ MatchedKeys # {}
    /\ diff.Missing # {}
    /\ Len(actual) = 1 /\ actual[1] \notin Range(expected)

\* C8: each metric is recorded under the key of the earliest-registered
\* keyer that matches it, or under its own key when none matches; the
\* keyers of a name are registered in the order of the expected metrics.
C8_FirstMatchingKeyer ==
    Done =>
        LET ek == EarliestKeysOf(expected)
            ak == EarliestKeysOf(actual)
        IN /\ DOMAIN expectedKeyMap = Range(ek)
           /\ DOMAIN actualKeyMap = Range(ak)
           /\ \A k \in DOMAIN expectedKeyMap : ek[expectedKeyMap[k]] = k
           /\ \A k \in DOMAIN actualKeyMap : ak[actualKeyMap[k]] = k
           /\ \A n \in DOMAIN keyers :
                  keyers[n] = SelectSeq([i \in DOMAIN expected |-> metricKeyer(expected[i])],
                                        LAMBDA k : k.keyers[1].expected = n)

C8_Witness ==
    /\ Done /\ Len(expected) = 2 /\ Len(actual) = 1
    /\ SatisfiedBy(actual[1]) = {1, 2}
    /\ Apply(metricKeyer(expected[1]), actual[1])[2] # Apply(metricKeyer(expected[2]), actual[1])[2]
    /\ DOMAIN actualKeyMap = {Apply(metricKeyer(expected[1]), actual[1])[2]}

\* C9: metrics of one collection with the same key leave one entry, bound
\* to the last of them; Missing and Extra hold one metric per key that
\* the other side lacks.
C9_LastWriteWins ==
    Done =>
        LET ek == KeysOf(expected, keyers)
            ak == KeysOf(actual, keyers)
        IN /\ \A k \in DOMAIN expectedKeyMap :
                  expectedKeyMap[k] = Max({i \in DOMAIN expected : ek[i] = k})
           /\ \A k \in DOMAIN actualKeyMap :
                  actualKeyMap[k] = Max({i \in DOMAIN actual : ak[i] = k})
           /\ \A x, y \in diff.Missing : x # y => ek[x] # ek[y]
           /\ \A x, y \in diff.Extra : x # y => ak[x] # ak[y]
           /\ Cardinality(diff.Missing) = Cardinality(Range(ek) \ Range(ak))
           /\ Cardinality(diff.Extra) = Cardinality(Range(ak) \ Range(ek))

C9_Witness ==
    /\ Done /\ Len(actual) = 2 /\ Len(expected) = 1
    /\ actual[1] # actual[2]
    /\ keyOf(actual[1], keyers) = keyOf(actual[2], keyers)
    /\ diff.Extra = {2}
    /\ diff.Missing = {1}

\* C10: an actual metric that satisfies the constraints of some expected
\* metric takes a key of the expected-side map and is not in Extra.
C10_MatchedNeverExtra ==
    Done => \A i \in DOMAIN actual :
                SatisfiedBy(actual[i]) # {}
                    => /\ keyOf(actual[i], keyers) \in DOMAIN expectedKeyMap
                       /\ i \notin diff.Extra
                       /\ actual[i] \notin ExtraMetrics

C10_Witness ==
    /\ Done /\ Len(expected) = 2 /\ Len(actual) = 1
    /\ expected[1].Name = expected[2].Name
    /\ keyOf(expected[2], keyers) # SelfKey(expected[2])
    /\ SatisfiedBy(actual[1]) = {1, 2}
    /\ actual[1] \notin Range(expected)
    /\ diff.Extra = {}

====
